---- MODULE Spec2Model ----
(***************************************************************************)
(* Jalrakshak: the risk prediction functions of jalrakshak.py              *)
(* (calculate_risk_score, determine_risk_level, predict_disease,           *)
(* get_city_risk_profile) as a state machine whose actions are the calls.  *)
(* Spec is one session calling the functions and running the handlers of   *)
(* the Risk Predictor page; SpecThreads is several session threads of the  *)
(* same process whose calls interleave step by step.                       *)
(*                                                                         *)
(* Numbers.  The program computes in floating point; the model computes    *)
(* the same expressions exactly, in fixed point.  A normalized sub-score   *)
(* x is the integer x * NormScale, a weight w is w * WeightScale, a        *)
(* weighted sum s is s * SumScale, and each threshold adjustment           *)
(* multiplies the accumulating score by the numerator of its factor over   *)
(* a per-step denominator (1.3 = 26/20, 1.15 = 23/20, 1 = 20/20, ...),     *)
(* so a final score r is the integer r * Scale.  With integer inputs and   *)
(* population a multiple of NormScale every intermediate value is an       *)
(* integer, so nothing is rounded.                                         *)
(***************************************************************************)
EXTENDS Integers, Sequences, FiniteSets, TLC

VARIABLES
    pc,          \* "idle", or the name of the function that has just returned
    reading,     \* the six arguments of the call (calculate_risk_score, predict_disease)
    jitter,      \* the sample random.uniform(-0.05, 0.05) drew, in units of 1/Scale
    risk_score,  \* calculate_risk_score's result / determine_risk_level's argument
    risk_level,  \* determine_risk_level's result <<level, color>>
    disease,     \* predict_disease's result
    city_name,   \* get_city_risk_profile's argument
    profile,     \* get_city_risk_profile's result
    confidence,  \* the confidence the Risk Predictor page computes, in percent
    draws,       \* how many samples the process has taken from the random module
                 \* (line 238; np.random of line 685 is another generator)
    threads,     \* the frame of the call each concurrent session thread is in
    held         \* a profile an earlier lookup returned, as its caller has changed it

\* The variables of one session's script run.
session == <<pc, reading, jitter, risk_score, risk_level, disease, city_name, profile,
             confidence, held>>

vars == <<pc, reading, jitter, risk_score, risk_level, disease, city_name, profile,
          confidence, draws, threads, held>>

None == "None"

(***************************************************************************)
(* Fixed-point representation                                              *)
(***************************************************************************)
NormScale == 200
WeightScale == 100
SumScale == NormScale * WeightScale
ContaminationDen == 20
RainfallDen == 10
SanitationDen == 20
DrainageDen == 5
Scale == SumScale * ContaminationDen * RainfallDen * SanitationDen * DrainageDen

Min(a, b) == IF a <= b THEN a ELSE b
Max(a, b) == IF a >= b THEN a ELSE b

(***************************************************************************)
(* calculate_risk_score, lines 186-240                                     *)
(***************************************************************************)
\* Variant: rainfall normalized without the cap at 200 mm.
rainfall_norm_Uncapped(rainfall) == (rainfall * NormScale) \div 200

\* min(1.0, rainfall / 200)
rainfall_norm(rainfall) == Min(NormScale, (rainfall * NormScale) \div 200)

\* Variant: contamination validated, clamped into [0, 100] before it is used.
contamination_norm_Clamped(contamination) ==
    Max(0, Min(NormScale, (contamination * NormScale) \div 100))

\* Variant: contamination inverted the way sanitation is.
contamination_norm_Inverted(contamination) == ((100 - contamination) * NormScale) \div 100

\* contamination / 100
contamination_norm(contamination) == (contamination * NormScale) \div 100

\* Variant: sanitation not inverted.
sanitation_norm_NotInverted(sanitation) == (sanitation * NormScale) \div 100

\* (100 - sanitation) / 100
sanitation_norm(sanitation) == ((100 - sanitation) * NormScale) \div 100

\* (5 - drainage_score) / 4
drainage_norm(drainage_score) == ((5 - drainage_score) * NormScale) \div 4

\* max(0, min(1, (temperature - 25) / 20))
temperature_norm(temperature) ==
    Max(0, Min(NormScale, ((temperature - 25) * NormScale) \div 20))

\* Variant: population normalized without the cap at 40000.
population_norm_Uncapped(population) == (population * NormScale) \div 40000

\* min(1.0, population / 40000)
population_norm(population) == Min(NormScale, (population * NormScale) \div 40000)

\* Variant: the temperature weight 0.05, so that the weights sum to 1.02.
weights_Unnormalized ==
    [contamination |-> 35, sanitation |-> 25, rainfall |-> 20, drainage |-> 15,
     temperature |-> 5, population |-> 2]

weights == [contamination |-> 35, sanitation |-> 25, rainfall |-> 20,
            drainage |-> 15, temperature |-> 3, population |-> 2]

\* Variant: the sanitation and rainfall weights exchanged.
WeightedSum_SwappedWeights(rainfall, contamination, drainage_score, sanitation, temperature, population) ==
    contamination_norm(contamination) * weights.contamination
    + sanitation_norm(sanitation) * weights.rainfall
    + rainfall_norm(rainfall) * weights.sanitation
    + drainage_norm(drainage_score) * weights.drainage
    + temperature_norm(temperature) * weights.temperature
    + population_norm(population) * weights.population

\* The weighted risk score of lines 208-215, in units of 1/SumScale.
WeightedSum(rainfall, contamination, drainage_score, sanitation, temperature, population) ==
    contamination_norm(contamination) * weights.contamination
    + sanitation_norm(sanitation) * weights.sanitation
    + rainfall_norm(rainfall) * weights.rainfall
    + drainage_norm(drainage_score) * weights.drainage
    + temperature_norm(temperature) * weights.temperature
    + population_norm(population) * weights.population

\* Variant: two independent tests instead of if/elif, so that contamination
\* above 80 takes both factors.
ContaminationAdjust_BothFactors(contamination, score) ==
    IF contamination > 80 THEN (score * 26 * 23) \div ContaminationDen
    ELSE IF contamination > 60 THEN score * 23
    ELSE score * ContaminationDen

\* if contamination > 80: *= 1.3  elif contamination > 60: *= 1.15
ContaminationAdjust(contamination, score) ==
    IF contamination > 80 THEN score * 26
    ELSE IF contamination > 60 THEN score * 23
    ELSE score * ContaminationDen

\* Variant: the two rainfall factors exchanged.
RainfallAdjust_SwappedFactors(rainfall, score) ==
    IF rainfall > 150 THEN score * 11
    ELSE IF rainfall > 100 THEN score * 12
    ELSE score * RainfallDen

\* if rainfall > 150: *= 1.2  elif rainfall > 100: *= 1.1
RainfallAdjust(rainfall, score) ==
    IF rainfall > 150 THEN score * 12
    ELSE IF rainfall > 100 THEN score * 11
    ELSE score * RainfallDen

\* if sanitation < 30: *= 1.25  elif sanitation < 50: *= 1.1
SanitationAdjust(sanitation, score) ==
    IF sanitation < 30 THEN score * 25
    ELSE IF sanitation < 50 THEN score * 22
    ELSE score * SanitationDen

\* if drainage_score >= 4: *= 1.2
DrainageAdjust(drainage_score, score) ==
    IF drainage_score >= 4 THEN score * 6
    ELSE score * DrainageDen

\* The score before the random term is added, in units of 1/Scale.
AdjustedScore(rainfall, contamination, drainage_score, sanitation, temperature, population) ==
    DrainageAdjust(drainage_score,
      SanitationAdjust(sanitation,
        RainfallAdjust(rainfall,
          ContaminationAdjust(contamination,
            WeightedSum(rainfall, contamination, drainage_score, sanitation,
                        temperature, population)))))

\* random.uniform(-0.05, 0.05) draws from [-MaxJitter, MaxJitter]
MaxJitter == 5 * (Scale \div 100)

\* Variant: no lower clamp (a floor of 0).
ScoreFloor_Zero == 0 * (Scale \div 100)

\* The bounds of the clamp of line 238, 0.05 and 0.98.
ScoreFloor == 5 * (Scale \div 100)

ScoreCeiling == 98 * (Scale \div 100)

\* Variant: the upper clamp left out.
ClampScore_NoCeiling(score) == Max(ScoreFloor, score)

\* max(0.05, min(0.98, risk_score + random.uniform(-0.05, 0.05)))
ClampScore(score) == Max(ScoreFloor, Min(ScoreCeiling, score))

\* Variant: the sample applied twice.
calculate_risk_score_DoubleJitter(rainfall, contamination, drainage_score, sanitation, temperature, population, uniform) ==
    ClampScore(AdjustedScore(rainfall, contamination, drainage_score, sanitation,
                             temperature, population) + 2 * uniform)

\* Lines 186-240, with the sample random.uniform drew as a parameter.
calculate_risk_score(rainfall, contamination, drainage_score, sanitation, temperature, population, uniform) ==
    ClampScore(AdjustedScore(rainfall, contamination, drainage_score, sanitation,
                             temperature, population) + uniform)

(***************************************************************************)
(* determine_risk_level, lines 242-251                                     *)
(***************************************************************************)
\* Variant: cutoffs compared with >= .
determine_risk_level_Inclusive(score) ==
    IF score >= 8 * (Scale \div 10) THEN <<"CRITICAL", "#7F1D1D">>
    ELSE IF score >= 6 * (Scale \div 10) THEN <<"HIGH", "#EF4444">>
    ELSE IF score >= 3 * (Scale \div 10) THEN <<"MEDIUM", "#F59E0B">>
    ELSE <<"LOW", "#10B981">>

\* Variant: the MEDIUM cutoff at 0.55 instead of 0.3.
determine_risk_level_NarrowMedium(score) ==
    IF score > 8 * (Scale \div 10) THEN <<"CRITICAL", "#7F1D1D">>
    ELSE IF score > 6 * (Scale \div 10) THEN <<"HIGH", "#EF4444">>
    ELSE IF score > 55 * (Scale \div 100) THEN <<"MEDIUM", "#F59E0B">>
    ELSE <<"LOW", "#10B981">>

\* Variant: HIGH returned with MEDIUM's color.
determine_risk_level_SharedColor(score) ==
    IF score > 8 * (Scale \div 10) THEN <<"CRITICAL", "#7F1D1D">>
    ELSE IF score > 6 * (Scale \div 10) THEN <<"HIGH", "#F59E0B">>
    ELSE IF score > 3 * (Scale \div 10) THEN <<"MEDIUM", "#F59E0B">>
    ELSE <<"LOW", "#10B981">>

determine_risk_level(score) ==
    IF score > 8 * (Scale \div 10) THEN <<"CRITICAL", "#7F1D1D">>
    ELSE IF score > 6 * (Scale \div 10) THEN <<"HIGH", "#EF4444">>
    ELSE IF score > 3 * (Scale \div 10) THEN <<"MEDIUM", "#F59E0B">>
    ELSE <<"LOW", "#10B981">>

(***************************************************************************)
(* predict_disease, lines 253-268                                          *)
(***************************************************************************)
\* Variant: the Diarrhea rule tested before the Typhoid rule.
predict_disease_DiarrheaFirst(rainfall, contamination, drainage_score, sanitation) ==
    IF contamination > 80 /\ rainfall > 150 THEN "Cholera"
    ELSE IF contamination > 60 THEN "Diarrhea"
    ELSE IF contamination > 70 /\ sanitation < 40 THEN "Typhoid"
    ELSE IF rainfall > 180 /\ drainage_score >= 4 THEN "Hepatitis A"
    ELSE IF contamination > 50 \/ rainfall > 120 THEN "Waterborne Disease Risk"
    ELSE "Low Risk"

\* Variant: the Hepatitis A rule tested before the Diarrhea rule.
predict_disease_HepatitisFirst(rainfall, contamination, drainage_score, sanitation) ==
    IF contamination > 80 /\ rainfall > 150 THEN "Cholera"
    ELSE IF contamination > 70 /\ sanitation < 40 THEN "Typhoid"
    ELSE IF rainfall > 180 /\ drainage_score >= 4 THEN "Hepatitis A"
    ELSE IF contamination > 60 THEN "Diarrhea"
    ELSE IF contamination > 50 \/ rainfall > 120 THEN "Waterborne Disease Risk"
    ELSE "Low Risk"

\* Variant: the Typhoid rule tested before the Cholera rule.
predict_disease_TyphoidFirst(rainfall, contamination, drainage_score, sanitation) ==
    IF contamination > 70 /\ sanitation < 40 THEN "Typhoid"
    ELSE IF contamination > 80 /\ rainfall > 150 THEN "Cholera"
    ELSE IF contamination > 60 THEN "Diarrhea"
    ELSE IF rainfall > 180 /\ drainage_score >= 4 THEN "Hepatitis A"
    ELSE IF contamination > 50 \/ rainfall > 120 THEN "Waterborne Disease Risk"
    ELSE "Low Risk"

predict_disease(rainfall, contamination, drainage_score, sanitation) ==
    IF contamination > 80 /\ rainfall > 150 THEN "Cholera"
    ELSE IF contamination > 70 /\ sanitation < 40 THEN "Typhoid"
    ELSE IF contamination > 60 THEN "Diarrhea"
    ELSE IF rainfall > 180 /\ drainage_score >= 4 THEN "Hepatitis A"
    ELSE IF contamination > 50 \/ rainfall > 120 THEN "Waterborne Disease Risk"
    ELSE "Low Risk"

(***************************************************************************)
(* get_city_risk_profile, lines 270-361.  base_risk is in hundredths.      *)
(***************************************************************************)
Profile(base_risk, dis, rainfall, contamination, sanitation, drainage) ==
    [base_risk |-> base_risk, disease |-> dis, rainfall |-> rainfall,
     contamination |-> contamination, sanitation |-> sanitation,
     drainage |-> drainage]

city_profiles ==
    [Mumbai    |-> Profile(72, "Cholera",     145, 68, 45, 4),
     Delhi     |-> Profile(65, "Typhoid",     110, 52, 55, 3),
     Chennai   |-> Profile(58, "Diarrhea",    125, 48, 60, 3),
     Kolkata   |-> Profile(68, "Cholera",     140, 62, 48, 4),
     Bangalore |-> Profile(42, "Low Risk",     95, 35, 70, 2),
     Hyderabad |-> Profile(55, "Hepatitis A", 105, 45, 58, 3),
     Ahmedabad |-> Profile(48, "Low Risk",     85, 40, 65, 3),
     Pune      |-> Profile(52, "Typhoid",     115, 38, 62, 3),
     Jaipur    |-> Profile(45, "Low Risk",     75, 32, 68, 3),
     Lucknow   |-> Profile(61, "Diarrhea",    120, 55, 50, 4)]

default_profile == Profile(50, "Low Risk", 100, 50, 60, 3)

\* Variant: the key lowercased before the lookup.
get_city_risk_profile_Lowercased(name) ==
    LET lower == [Mumbai |-> "mumbai", Delhi |-> "delhi", Chennai |-> "chennai",
                  Kolkata |-> "kolkata", Bangalore |-> "bangalore",
                  Hyderabad |-> "hyderabad", Ahmedabad |-> "ahmedabad",
                  Pune |-> "pune", Jaipur |-> "jaipur", Lucknow |-> "lucknow"]
        key == IF name \in DOMAIN lower THEN lower[name] ELSE name
    IN  IF key \in DOMAIN city_profiles THEN city_profiles[key] ELSE default_profile

\* Variant: the lookup made case-insensitive (the name capitalized first).
get_city_risk_profile_CaseInsensitive(name) ==
    LET key == IF name \in {"mumbai", "MUMBAI"} THEN "Mumbai" ELSE name
    IN  IF key \in DOMAIN city_profiles THEN city_profiles[key] ELSE default_profile

\* Variant: city_profiles and the default record are module-level objects, so
\* that the record a caller holds and has changed is the one a lookup returns.
get_city_risk_profile_SharedRecord(name) ==
    IF /\ pc = "profile_changed"
       /\ \/ name = held.name
          \/ {name, held.name} \cap DOMAIN city_profiles = {}
    THEN held.record
    ELSE IF name \in DOMAIN city_profiles THEN city_profiles[name] ELSE default_profile

\* city_profiles.get(city_name, {...})
get_city_risk_profile(name) ==
    IF name \in DOMAIN city_profiles THEN city_profiles[name] ELSE default_profile

(***************************************************************************)
(* The inputs of the calls.  Every factor's values are a regular grid      *)
(* together with the cutoffs the called function tests and their           *)
(* neighbours; the catalog's profiles and the documented examples are      *)
(* added as readings of their own.                                         *)
(***************************************************************************)
MaxRainfall == 250
RainfallStep == 50
ContaminationStep == 50
SanitationStep == 50
JitterSteps == 2
MaxDraws == 2
NumThreads == 2

Grid(max, step) == {v \in 0..max : v % step = 0}

ContaminationRange == 0..100
SanitationRange == 0..100
RainfallRange == 0..MaxRainfall
DrainageRange == 1..5

TemperatureVals == {20, 30, 50}
PopulationVals == {0, 25000, 50000}

Reading(rainfall, contamination, drainage_score, sanitation, temperature, population) ==
    [rainfall |-> rainfall, contamination |-> contamination,
     drainage_score |-> drainage_score, sanitation |-> sanitation,
     temperature |-> temperature, population |-> population]

\* A catalog profile as the arguments Quick City Analysis passes (lines 568-573):
\* temperature and population take the defaults of line 186.
ProfileReading(p) == Reading(p.rainfall, p.contamination, p.drainage, p.sanitation, 30, 25000)

CatalogReadings == {ProfileReading(city_profiles[c]) : c \in DOMAIN city_profiles}
                   \cup {ProfileReading(default_profile)}

ExampleReadings == {Reading(160, 85, 3, 60, 30, 25000),
                    Reading(50, 75, 2, 35, 30, 25000),
                    Reading(50, 30, 1, 90, 30, 25000),
                    Reading(0, 0, 5, 100, 25, 0),
                    Reading(200, 100, 1, 0, 45, 40000)}

\* Readings outside the ranges of the sliders: calculate_risk_score takes any
\* numbers (no check between line 186 and line 190).
OutOfRangeReadings == {Reading(100, 150, 3, 60, 30, 25000),
                       Reading(100, -20, 3, 60, 30, 25000),
                       Reading(-50, 50, 3, 60, 30, 25000),
                       Reading(100, 50, 3, 120, 30, 25000),
                       Reading(100, 50, 3, -10, 30, 25000),
                       Reading(100, 50, 0, 60, 30, 25000),
                       Reading(100, 50, 7, 60, 30, 25000),
                       Reading(100, 50, 3, 60, 30, -1000),
                       Reading(-200, -20, 5, 120, 20, 0)}

ScoreReadings ==
    {Reading(r, c, d, s, t, p) :
        r \in Grid(MaxRainfall, RainfallStep) \cup {100, 101, 150, 151, 200},
        c \in Grid(100, ContaminationStep) \cup {60, 61, 80, 81, 100},
        d \in DrainageRange,
        s \in Grid(100, SanitationStep) \cup {29, 30, 49, 50, 100},
        t \in TemperatureVals,
        p \in PopulationVals}
    \cup CatalogReadings \cup ExampleReadings \cup OutOfRangeReadings

\* predict_disease takes no temperature and no population.
DiseaseReadings ==
    {Reading(r, c, d, s, None, None) :
        r \in Grid(MaxRainfall, RainfallStep) \cup {120, 121, 150, 151, 180, 181},
        c \in Grid(100, ContaminationStep) \cup {50, 51, 60, 61, 70, 71, 80, 81, 100},
        d \in DrainageRange,
        s \in Grid(100, SanitationStep) \cup {39, 40, 100}}
    \cup {Reading(rd.rainfall, rd.contamination, rd.drainage_score, rd.sanitation, None, None) :
            rd \in CatalogReadings \cup ExampleReadings}

JitterVals == {k * (MaxJitter \div JitterSteps) : k \in -JitterSteps..JitterSteps}

\* Scores in hundredths from 0.00 to 1.00, and the values next to each cutoff.
ScoreVals ==
    {k * (Scale \div 100) : k \in 0..100}
    \cup {k * (Scale \div 10) + e : k \in {3, 6, 8}, e \in {-1, 1}}

CityNames == DOMAIN city_profiles
             \cup {"mumbai", "MUMBAI", "Mumbai ", "Atlantis", "Nagpur", ""}

\* The assignments a caller makes to a profile it was given: a key and the new
\* value.
ProfileChanges == {<<"rainfall", 999>>, <<"disease", "Changed">>, <<"base_risk", 0>>}

\* The options of the "Select City" selectbox, lines 558-560.
SelectboxCities == {"Mumbai", "Delhi", "Chennai", "Kolkata", "Bangalore",
                    "Hyderabad", "Ahmedabad", "Pune", "Jaipur", "Lucknow"}

\* The sliders of Custom Parameters, lines 646-664, hold a reading within their
\* ranges; the first one below is the sliders' initial values.
SliderReadings ==
    {rd \in {Reading(120, 65, 3, 42, 32, 25000)} \cup CatalogReadings \cup ExampleReadings :
        /\ rd.rainfall \in 0..300
        /\ rd.temperature \in 20..45
        /\ rd.population \in 0..50000 /\ rd.population % 1000 = 0}

\* np.random.randint(-5, 10) draws an integer of -5..9
RandintVals == -5..9

\* min(95, max(75, int(85 + (risk_score - 0.5) * 20)))
CityConfidence(score) == Min(95, Max(75, 75 + score \div (Scale \div 20)))

\* The readings of a scoring call.  The first call of a process ranges over
\* the whole grid; the calls after it (n samples drawn before them) take the
\* catalog's, the documented and the out-of-range readings.
ScoreInputs(n) ==
    IF n = 0 THEN ScoreReadings
    ELSE CatalogReadings \cup ExampleReadings \cup OutOfRangeReadings

\* The session threads of the process, and the frame of a thread that is in no
\* call: the function, its arguments, the sample it drew, the local risk_score
\* of calculate_risk_score (0 until line 208 assigns it) and the value returned.
Threads == 1..NumThreads
IdleFrame == [pc |-> "idle", fn |-> None, args |-> None, uniform |-> None,
              risk_score |-> 0, result |-> None]

(***************************************************************************)
(* The state machine: one action per call and one per button handler of    *)
(* the Risk Predictor page; Rerun is the script run ending (the results    *)
(* are locals of the run).                                                 *)
(***************************************************************************)
Init ==
    /\ pc = "idle"
    /\ reading = None
    /\ jitter = None
    /\ risk_score = None
    /\ risk_level = None
    /\ disease = None
    /\ city_name = None
    /\ profile = None
    /\ confidence = None
    /\ draws = 0
    /\ threads = [t \in Threads |-> IdleFrame]
    /\ held = None

\* Variant: two samples drawn, the second one discarded.
CalculateRiskScore_TwoSamples ==
    /\ pc = "idle"
    /\ draws < MaxDraws
    /\ \E rd \in ScoreInputs(draws), u \in JitterVals :
        /\ reading' = rd
        /\ jitter' = u
        /\ risk_score' = calculate_risk_score(rd.rainfall, rd.contamination,
                              rd.drainage_score, rd.sanitation, rd.temperature,
                              rd.population, u)
    /\ draws' = draws + 2
    /\ pc' = "calculate_risk_score"
    /\ UNCHANGED <<risk_level, disease, city_name, profile, confidence, threads, held>>

CalculateRiskScore ==
    /\ pc = "idle"
    /\ draws < MaxDraws
    /\ \E rd \in ScoreInputs(draws), u \in JitterVals :
        /\ reading' = rd
        /\ jitter' = u
        /\ risk_score' = calculate_risk_score(rd.rainfall, rd.contamination,
                              rd.drainage_score, rd.sanitation, rd.temperature,
                              rd.population, u)
    /\ draws' = draws + 1
    /\ pc' = "calculate_risk_score"
    /\ UNCHANGED <<risk_level, disease, city_name, profile, confidence, threads, held>>

DetermineRiskLevel ==
    /\ pc = "idle"
    /\ \E s \in ScoreVals :
        /\ risk_score' = s
        /\ risk_level' = determine_risk_level(s)
    /\ pc' = "determine_risk_level"
    /\ UNCHANGED <<reading, jitter, disease, city_name, profile, confidence, draws, threads,
                   held>>

PredictDisease ==
    /\ pc = "idle"
    /\ \E rd \in DiseaseReadings :
        /\ reading' = rd
        /\ disease' = predict_disease(rd.rainfall, rd.contamination,
                                      rd.drainage_score, rd.sanitation)
    /\ pc' = "predict_disease"
    /\ UNCHANGED <<jitter, risk_score, risk_level, city_name, profile, confidence, draws,
                   threads, held>>

GetCityRiskProfile ==
    /\ pc = "idle"
    /\ \E name \in CityNames :
        /\ city_name' = name
        /\ profile' = get_city_risk_profile(name)
    /\ pc' = "get_city_risk_profile"
    /\ UNCHANGED <<reading, jitter, risk_score, risk_level, disease, confidence, draws,
                   threads, held>>

\* Variant: the catalog's base_risk averaged into the score.
AnalyzeCity_BlendsBaseRisk ==
    /\ pc = "idle"
    /\ draws < MaxDraws
    /\ \E selected_city \in SelectboxCities, u \in JitterVals :
        LET p == get_city_risk_profile(selected_city)
            score == (calculate_risk_score(p.rainfall, p.contamination, p.drainage,
                                           p.sanitation, 30, 25000, u)
                      + p.base_risk * (Scale \div 100)) \div 2
        IN  /\ city_name' = selected_city
            /\ profile' = p
            /\ reading' = ProfileReading(p)
            /\ jitter' = u
            /\ risk_score' = score
            /\ risk_level' = determine_risk_level(score)
            /\ disease' = predict_disease(p.rainfall, p.contamination, p.drainage,
                                          p.sanitation)
            /\ confidence' = CityConfidence(score)
    /\ draws' = draws + 1
    /\ pc' = "analyze_city"
    /\ UNCHANGED <<threads, held>>

\* The caller of get_city_risk_profile owns the dictionary it was given and
\* assigns to one of its keys.
ChangeProfile ==
    /\ pc = "get_city_risk_profile"
    /\ \E change \in ProfileChanges :
        held' = [name |-> city_name,
                 record |-> [profile EXCEPT ![change[1]] = change[2]]]
    /\ pc' = "profile_changed"
    /\ UNCHANGED <<reading, jitter, risk_score, risk_level, disease, city_name, profile,
                   confidence, draws, threads>>

\* A later call of get_city_risk_profile, lines 270-361, by the same caller.
LookupAgain ==
    /\ pc = "profile_changed"
    /\ \E name \in CityNames :
        /\ city_name' = name
        /\ profile' = get_city_risk_profile(name)
    /\ pc' = "looked_up_again"
    /\ UNCHANGED <<reading, jitter, risk_score, risk_level, disease, confidence, draws,
                   threads, held>>

\* "Analyze City" of Quick City Analysis, lines 562-587.
AnalyzeCity ==
    /\ pc = "idle"
    /\ draws < MaxDraws
    /\ \E selected_city \in SelectboxCities, u \in JitterVals :
        LET p == get_city_risk_profile(selected_city)
            score == calculate_risk_score(p.rainfall, p.contamination, p.drainage,
                                          p.sanitation, 30, 25000, u)
        IN  /\ city_name' = selected_city
            /\ profile' = p
            /\ reading' = ProfileReading(p)
            /\ jitter' = u
            /\ risk_score' = score
            /\ risk_level' = determine_risk_level(score)
            /\ disease' = predict_disease(p.rainfall, p.contamination, p.drainage,
                                          p.sanitation)
            /\ confidence' = CityConfidence(score)
    /\ draws' = draws + 1
    /\ pc' = "analyze_city"
    /\ UNCHANGED <<threads, held>>

\* "Run Prediction" of Custom Parameters, lines 666-685.
RunPrediction ==
    /\ pc = "idle"
    /\ draws < MaxDraws
    /\ \E rd \in SliderReadings, u \in JitterVals, k \in RandintVals :
        LET score == calculate_risk_score(rd.rainfall, rd.contamination,
                         rd.drainage_score, rd.sanitation, rd.temperature,
                         rd.population, u)
        IN  /\ reading' = rd
            /\ jitter' = u
            /\ risk_score' = score
            /\ risk_level' = determine_risk_level(score)
            /\ disease' = predict_disease(rd.rainfall, rd.contamination,
                                          rd.drainage_score, rd.sanitation)
            /\ confidence' = 85 + k
    /\ draws' = draws + 1
    /\ pc' = "run_prediction"
    /\ UNCHANGED <<city_name, profile, threads, held>>

Rerun ==
    /\ pc # "idle"
    /\ pc' = "idle"
    /\ reading' = None
    /\ jitter' = None
    /\ risk_score' = None
    /\ risk_level' = None
    /\ disease' = None
    /\ city_name' = None
    /\ profile' = None
    /\ confidence' = None
    /\ held' = None
    /\ UNCHANGED <<draws, threads>>

Next ==
    \/ CalculateRiskScore
    \/ DetermineRiskLevel
    \/ PredictDisease
    \/ GetCityRiskProfile
    \/ ChangeProfile
    \/ LookupAgain
    \/ AnalyzeCity
    \/ RunPrediction
    \/ Rerun

Spec == Init /\ [][Next]_vars

(***************************************************************************)
(* Concurrent sessions.  Every session thread of the process runs the      *)
(* script and calls the same functions; a call's parameters and locals     *)
(* live in the calling thread's frame, and the generator of the random     *)
(* module is the one object the threads share.  A call is split at its     *)
(* accesses to that generator, so that the calls of different threads      *)
(* interleave: the weighting (lines 190-234), the draw and clamp (line     *)
(* 238) and the return (line 240) of calculate_risk_score are steps of     *)
(* their own; the other three functions return an expression of their      *)
(* parameters in one step.                                                 *)
(***************************************************************************)
ThreadReadings == {ProfileReading(city_profiles["Mumbai"]), Reading(0, 0, 5, 100, 25, 0)}
ThreadJitter == {-MaxJitter, 0, MaxJitter}
ThreadScores == {3 * (Scale \div 10), 8 * (Scale \div 10), 8 * (Scale \div 10) + 1}
ThreadCities == {"Mumbai", "mumbai"}

\* The calls a thread makes: the function and its arguments.
ThreadCalls ==
    {<<"calculate_risk_score", rd>> : rd \in ThreadReadings}
    \cup {<<"determine_risk_level", s>> : s \in ThreadScores}
    \cup {<<"predict_disease", rd>> : rd \in ThreadReadings}
    \cup {<<"get_city_risk_profile", name>> : name \in ThreadCities}

\* What determine_risk_level, predict_disease and get_city_risk_profile compute
\* from their arguments.
Evaluate(fn, args) ==
    CASE fn = "determine_risk_level" -> determine_risk_level(args)
      [] fn = "predict_disease" ->
            predict_disease(args.rainfall, args.contamination, args.drainage_score,
                            args.sanitation)
      [] fn = "get_city_risk_profile" -> get_city_risk_profile(args)

\* Variant: risk_score is a module-level global, one for every thread.
FrameOf_Global(t) == 1

\* The frame that holds the local risk_score of thread t's call: its own.
FrameOf(t) == t

\* A thread enters a function with its arguments.
ThreadCall(t) ==
    /\ threads[t].pc = "idle"
    /\ \E call \in ThreadCalls :
        threads' = [threads EXCEPT ![t] = [IdleFrame EXCEPT !.pc = "called",
                                                            !.fn = call[1],
                                                            !.args = call[2]]]
    /\ UNCHANGED <<session, draws>>

\* Lines 190-234: the weighted, adjusted score, left in the local risk_score.
ThreadWeigh(t) ==
    /\ threads[t].pc = "called"
    /\ threads[t].fn = "calculate_risk_score"
    /\ LET a == threads[t].args
       IN  threads' = [threads EXCEPT
               ![FrameOf(t)].risk_score = AdjustedScore(a.rainfall, a.contamination,
                                         a.drainage_score, a.sanitation,
                                         a.temperature, a.population),
               ![t].pc = "weighted"]
    /\ UNCHANGED <<session, draws>>

\* Variant: a second sample is drawn and added, which the caller never sees.
ThreadDraw_HiddenSample(t) ==
    /\ threads[t].pc = "weighted"
    /\ draws < MaxDraws
    /\ \E u \in ThreadJitter, v \in ThreadJitter :
        threads' = [threads EXCEPT
            ![t].uniform = u,
            ![FrameOf(t)].risk_score =
                ClampScore(threads[FrameOf(t)].risk_score + u + v),
            ![t].pc = "computed"]
    /\ draws' = draws + 1
    /\ UNCHANGED session

\* Line 238: one sample is drawn from the shared generator, added to the local
\* risk_score, and the sum is clamped.
ThreadDraw(t) ==
    /\ threads[t].pc = "weighted"
    /\ draws < MaxDraws
    /\ \E u \in ThreadJitter :
        threads' = [threads EXCEPT
            ![t].uniform = u,
            ![FrameOf(t)].risk_score = ClampScore(threads[FrameOf(t)].risk_score + u),
            ![t].pc = "computed"]
    /\ draws' = draws + 1
    /\ UNCHANGED session

\* One of the three functions that draw no sample returns.
ThreadEvaluate(t) ==
    /\ threads[t].pc = "called"
    /\ threads[t].fn # "calculate_risk_score"
    /\ threads' = [threads EXCEPT
           ![t].result = Evaluate(threads[t].fn, threads[t].args),
           ![t].pc = "returned"]
    /\ UNCHANGED <<session, draws>>

\* Line 240: calculate_risk_score returns its local risk_score.
ThreadReturn(t) ==
    /\ threads[t].pc = "computed"
    /\ threads' = [threads EXCEPT ![t].result = threads[FrameOf(t)].risk_score,
                                  ![t].pc = "returned"]
    /\ UNCHANGED <<session, draws>>

\* The thread's script run ends; its frame is gone.
ThreadRerun(t) ==
    /\ threads[t].pc = "returned"
    /\ threads' = [threads EXCEPT ![t] = IdleFrame]
    /\ UNCHANGED <<session, draws>>

NextThreads ==
    \E t \in Threads :
        \/ ThreadCall(t)
        \/ ThreadWeigh(t)
        \/ ThreadDraw(t)
        \/ ThreadEvaluate(t)
        \/ ThreadReturn(t)
        \/ ThreadRerun(t)

SpecThreads == Init /\ [][NextThreads]_vars

(***************************************************************************)
(* Properties                                                              *)
(***************************************************************************)
\* The states in which each function has returned (alone or in a handler).
Scored == pc \in {"calculate_risk_score", "analyze_city", "run_prediction"}
Classified == pc \in {"determine_risk_level", "analyze_city", "run_prediction"}
Diagnosed == pc \in {"predict_disease", "analyze_city", "run_prediction"}
LookedUp == pc \in {"get_city_risk_profile", "analyze_city"}

\* A reading within the ranges of the data model: rainfall >= 0, contamination
\* and sanitation in [0,100], drainage 1..5, any temperature, population >= 0.
InDataModel(rd) ==
    /\ rd.rainfall >= 0
    /\ rd.contamination \in 0..100
    /\ rd.sanitation \in 0..100
    /\ rd.drainage_score \in 1..5
    /\ rd.population >= 0

\* calculate_risk_score of a reading, and the score before the random term.
ScoreOf(rd, u) ==
    calculate_risk_score(rd.rainfall, rd.contamination, rd.drainage_score,
                         rd.sanitation, rd.temperature, rd.population, u)
RawScoreOf(rd) ==
    AdjustedScore(rd.rainfall, rd.contamination, rd.drainage_score,
                  rd.sanitation, rd.temperature, rd.population)

\* C1: for every reading within the data-model ranges and every jitter in
\* [-0.05, +0.05], calculate_risk_score returns r with 0.05 <= r <= 0.98.
C1_ScoreWithinClamp ==
    Scored => /\ Scale \div 20 <= risk_score
              /\ risk_score <= Scale - Scale \div 50

\* C1 witness: a call whose score before clamping is above 0.98 despite a
\* negative jitter, and which returns 0.98.
C1_Witness ==
    /\ pc = "calculate_risk_score"
    /\ jitter < 0
    /\ RawScoreOf(reading) + jitter > Scale
    /\ risk_score = Scale - Scale \div 50

\* The weighted sum W over the documented normalizations, in units of 1/20000:
\* 0.35*c/100 + 0.25*(100-s)/100 + 0.20*min(1, r/200) + 0.15*(5-d)/4
\* + 0.03*clamp((t-25)/20, 0, 1) + 0.02*min(1, p/40000).
DocumentedW(rd) ==
    70 * rd.contamination
    + 50 * (100 - rd.sanitation)
    + 20 * (IF rd.rainfall > 200 THEN 200 ELSE rd.rainfall)
    + 750 * (5 - rd.drainage_score)
    + 30 * (IF rd.temperature < 25 THEN 0
            ELSE IF rd.temperature > 45 THEN 20 ELSE rd.temperature - 25)
    + (IF rd.population > 40000 THEN 40000 ELSE rd.population) \div 100

\* The product M of the threshold multipliers that apply, in units of 1/20000
\* (1.30 = 26/20, 1.15 = 23/20; 1.20 = 12/10, 1.10 = 11/10; 1.25 = 25/20,
\* 1.10 = 22/20; 1.20 = 6/5).
DocumentedM(rd) ==
    (CASE rd.contamination > 80 -> 26 [] rd.contamination \in 61..80 -> 23 [] OTHER -> 20)
    * (CASE rd.rainfall > 150 -> 12 [] rd.rainfall \in 101..150 -> 11 [] OTHER -> 10)
    * (CASE rd.sanitation < 30 -> 25 [] rd.sanitation \in 30..49 -> 22 [] OTHER -> 20)
    * (CASE rd.drainage_score >= 4 -> 6 [] OTHER -> 5)

DocumentedClamp(x) ==
    CASE x < 20000000 -> 20000000
      [] x > 392000000 -> 392000000
      [] OTHER -> x

MumbaiReading == Reading(145, 68, 4, 45, 30, 25000)

\* C2: for every jitter j, calculate_risk_score = clamp(W * M + j, 0.05, 0.98);
\* with j = 0 and temperature and population defaulted the Mumbai reading gives
\* W = 0.578, M = 1.15 * 1.10 * 1.10 * 1.20 = 1.6698 and 0.9651444, unclamped.
C2_ScoreIsClampedProduct ==
    Scored =>
        /\ risk_score = DocumentedClamp(DocumentedW(reading) * DocumentedM(reading) + jitter)
        /\ (reading = MumbaiReading /\ jitter = 0) =>
              /\ DocumentedW(reading) * 1000 = 578 * 20000
              /\ DocumentedM(reading) = 23 * 11 * 22 * 6
              /\ DocumentedM(reading) * 10000 = 16698 * 20000
              /\ risk_score = 386057760
              /\ risk_score = DocumentedW(reading) * DocumentedM(reading)

\* C2 witness: the Mumbai reading scored with jitter 0.
C2_Witness ==
    /\ Scored
    /\ reading = MumbaiReading
    /\ jitter = 0
    /\ risk_score = 386057760

\* The scores, with jitter 0, of the readings that differ from rd in one factor,
\* as a function of that factor's value.
ByContamination(rd) ==
    [c \in ContaminationRange |-> ScoreOf([rd EXCEPT !.contamination = c], 0)]
ByRainfall(rd) ==
    [r \in RainfallRange |-> ScoreOf([rd EXCEPT !.rainfall = r], 0)]
BySanitation(rd) ==
    [s \in SanitationRange |-> ScoreOf([rd EXCEPT !.sanitation = s], 0)]

\* f is non-decreasing over lo..hi (each step is, hence every pair is); the
\* values of f are tabulated once, so each is computed a single time.
NonDecreasing(f, lo, hi) ==
    \A table \in {f @@ <<>>} : \A x \in lo..(hi - 1) : table[x] <= table[x + 1]
NonIncreasing(f, lo, hi) ==
    \A table \in {f @@ <<>>} : \A x \in lo..(hi - 1) : table[x] >= table[x + 1]

\* The values of a range next to x.
Below(x, range) == {x - 1} \cap range
Above(x, range) == {x + 1} \cap range

\* C3: with jitter 0 and the other inputs fixed, the score is non-decreasing in
\* contamination over [0,100].  The returned score is at least the score of the
\* next lower contamination and at most that of the next higher one; and, once
\* per combination of the other inputs (at the call with contamination 0), the
\* score never drops from any contamination value to the next, so that
\* score(c1) <= score(c2) for all c1 <= c2.
C3_MonotoneInContamination ==
    (Scored /\ jitter = 0 /\ InDataModel(reading)) =>
        LET f == ByContamination(reading)
        IN  /\ \A c \in Below(reading.contamination, ContaminationRange) : f[c] <= risk_score
            /\ \A c \in Above(reading.contamination, ContaminationRange) : risk_score <= f[c]
            /\ reading.contamination = 0 =>
                  f[0] = risk_score /\ NonDecreasing(f, 0, 100)

\* C3 witness: a call just above the 80 cutoff whose score exceeds the score at
\* the cutoff, which in turn exceeds the score at 60.
C3_Witness ==
    /\ pc = "calculate_risk_score"
    /\ jitter = 0
    /\ reading.contamination = 81
    /\ ByContamination(reading)[60] < ByContamination(reading)[80]
    /\ ByContamination(reading)[80] < risk_score
    /\ risk_score < Scale - Scale \div 50

\* C4: with jitter 0 and the other inputs fixed, the score is non-decreasing in
\* rainfall (rainfall >= 0), across the 100 and 150 cutoffs and the 200 mm cap
\* (stated as C3 is: the call's neighbours, and every step of the range from 0).
C4_MonotoneInRainfall ==
    (Scored /\ jitter = 0 /\ InDataModel(reading)) =>
        LET f == ByRainfall(reading)
        IN  /\ \A r \in Below(reading.rainfall, RainfallRange) : f[r] <= risk_score
            /\ \A r \in Above(reading.rainfall, RainfallRange) : risk_score <= f[r]
            /\ reading.rainfall = 0 =>
                  f[0] = risk_score /\ NonDecreasing(f, 0, MaxRainfall)

\* C4 witness: a call with rainfall above the 200 mm cap whose unclamped score
\* exceeds the score at 150 and equals the score at 200.
C4_Witness ==
    /\ pc = "calculate_risk_score"
    /\ jitter = 0
    /\ reading.rainfall > 200
    /\ ByRainfall(reading)[100] < ByRainfall(reading)[150]
    /\ ByRainfall(reading)[150] < risk_score
    /\ ByRainfall(reading)[200] = risk_score
    /\ risk_score < Scale - Scale \div 50

\* C5: with jitter 0 and the other inputs fixed, the score is non-increasing in
\* sanitation over [0,100], across the 30 and 50 cutoffs (stated as C3 is: the
\* call's neighbours, and every step of the range from 0).
C5_AntitoneInSanitation ==
    (Scored /\ jitter = 0 /\ InDataModel(reading)) =>
        LET f == BySanitation(reading)
        IN  /\ \A s \in Below(reading.sanitation, SanitationRange) : f[s] >= risk_score
            /\ \A s \in Above(reading.sanitation, SanitationRange) : risk_score >= f[s]
            /\ reading.sanitation = 0 =>
                  f[0] = risk_score /\ NonIncreasing(f, 0, 100)

\* C5 witness: a call at the 50 cutoff whose score is below the score at 49,
\* which is below the score at 29.
C5_Witness ==
    /\ pc = "calculate_risk_score"
    /\ jitter = 0
    /\ reading.sanitation = 50
    /\ BySanitation(reading)[29] > BySanitation(reading)[49]
    /\ BySanitation(reading)[49] > risk_score
    /\ risk_score > Scale \div 20

\* The tiers in the order their cutoffs are tested, cutoffs in tenths.
TierTable == <<[above |-> 8, level |-> "CRITICAL"],
               [above |-> 6, level |-> "HIGH"],
               [above |-> 3, level |-> "MEDIUM"]>>

\* The level of the first tier whose cutoff the score strictly exceeds, else LOW.
TierOf(score) ==
    LET hit == {i \in DOMAIN TierTable : score > TierTable[i].above * (Scale \div 10)}
    IN  IF hit = {} THEN "LOW"
        ELSE TierTable[CHOOSE i \in hit : \A k \in hit : i <= k].level

Hundredths(n) == n * (Scale \div 100)

\* C6: determine_risk_level tests strict cutoffs top-down (> 0.8 CRITICAL,
\* > 0.6 HIGH, > 0.3 MEDIUM, else LOW): 0.80 is HIGH, 0.60 MEDIUM, 0.30 LOW,
\* 0.81 CRITICAL, 0.61 HIGH, 0.31 MEDIUM.
C6_StrictCutoffs ==
    Classified =>
        /\ risk_level[1] = TierOf(risk_score)
        /\ risk_score = Hundredths(81) => risk_level[1] = "CRITICAL"
        /\ risk_score = Hundredths(80) => risk_level[1] = "HIGH"
        /\ risk_score = Hundredths(61) => risk_level[1] = "HIGH"
        /\ risk_score = Hundredths(60) => risk_level[1] = "MEDIUM"
        /\ risk_score = Hundredths(31) => risk_level[1] = "MEDIUM"
        /\ risk_score = Hundredths(30) => risk_level[1] = "LOW"

\* C6 witness: the score exactly 0.80 classified HIGH.
C6_Witness ==
    /\ pc = "determine_risk_level"
    /\ risk_score = Hundredths(80)
    /\ risk_level[1] = "HIGH"

TierColors == {<<"CRITICAL", "#7F1D1D">>, <<"HIGH", "#EF4444">>,
               <<"MEDIUM", "#F59E0B">>, <<"LOW", "#10B981">>}

\* C7: determine_risk_level returns one of the four (tier, color) pairs, and
\* over all scores the tier determines the color and the color the tier: any
\* other score gets the same tier exactly when it gets the same color.
C7_TierColorOneToOne ==
    Classified =>
        /\ risk_level \in TierColors
        /\ \A s \in ScoreVals :
              (determine_risk_level(s)[1] = risk_level[1])
                  <=> (determine_risk_level(s)[2] = risk_level[2])

\* C7 witness: a score classified MEDIUM with MEDIUM's color.
C7_Witness ==
    /\ pc = "determine_risk_level"
    /\ risk_level = <<"MEDIUM", "#F59E0B">>

\* The documented rules in priority order, evaluated on a reading.
DiseaseRules(rd) ==
    <<[holds |-> rd.contamination > 80 /\ rd.rainfall > 150, label |-> "Cholera"],
      [holds |-> rd.contamination > 70 /\ rd.sanitation < 40, label |-> "Typhoid"],
      [holds |-> rd.contamination > 60,                       label |-> "Diarrhea"],
      [holds |-> rd.rainfall > 180 /\ rd.drainage_score >= 4, label |-> "Hepatitis A"],
      [holds |-> rd.contamination > 50 \/ rd.rainfall > 120,
                                                   label |-> "Waterborne Disease Risk"],
      [holds |-> TRUE,                                        label |-> "Low Risk"]>>

FirstRule(rules) ==
    CHOOSE i \in DOMAIN rules :
        rules[i].holds /\ \A k \in 1..(i - 1) : ~rules[k].holds

SameInputs(rd, rainfall, contamination, drainage_score, sanitation) ==
    /\ rd.rainfall = rainfall
    /\ rd.contamination = contamination
    /\ rd.drainage_score = drainage_score
    /\ rd.sanitation = sanitation

\* C8: predict_disease returns the label of the first satisfied rule of the
\* ordered list; (rainfall 50, contamination 75, drainage 2, sanitation 35)
\* gives Typhoid and (50, 30, 1, 90) gives Low Risk.
C8_FirstRuleWins ==
    Diagnosed =>
        /\ disease = DiseaseRules(reading)[FirstRule(DiseaseRules(reading))].label
        /\ SameInputs(reading, 50, 75, 2, 35) => disease = "Typhoid"
        /\ SameInputs(reading, 50, 30, 1, 90) => disease = "Low Risk"

\* C8 witness: the documented Typhoid example, where the Diarrhea rule holds too.
C8_Witness ==
    /\ pc = "predict_disease"
    /\ SameInputs(reading, 50, 75, 2, 35)
    /\ DiseaseRules(reading)[3].holds
    /\ disease = "Typhoid"

\* C9: whenever contamination > 80 and rainfall > 150, predict_disease returns
\* Cholera, for every drainage_score and sanitation, although the Diarrhea rule
\* matches too and the Typhoid rule does when sanitation < 40.
C9_CholeraHasPriority ==
    (Diagnosed /\ reading.contamination > 80 /\ reading.rainfall > 150) =>
        disease = "Cholera"

\* C9 witness: Cholera returned where the Typhoid and Diarrhea rules hold too.
C9_Witness ==
    /\ pc = "predict_disease"
    /\ reading.contamination > 80 /\ reading.rainfall > 150
    /\ reading.sanitation < 40
    /\ disease = "Cholera"

TenCities == {"Mumbai", "Delhi", "Chennai", "Kolkata", "Bangalore",
              "Hyderabad", "Ahmedabad", "Pune", "Jaipur", "Lucknow"}

ProfileFields == {"base_risk", "disease", "rainfall", "contamination",
                  "sanitation", "drainage"}

\* C10: for each of exactly ten keys get_city_risk_profile returns that city's
\* hardcoded record of six fields; Mumbai's has rainfall 145, contamination 68,
\* sanitation 45, drainage 4.
C10_CatalogLookup ==
    /\ DOMAIN city_profiles = TenCities
    /\ (LookedUp /\ city_name \in TenCities) =>
          /\ profile = city_profiles[city_name]
          /\ DOMAIN profile = ProfileFields
          /\ city_name = "Mumbai" =>
                /\ profile.rainfall = 145
                /\ profile.contamination = 68
                /\ profile.sanitation = 45
                /\ profile.drainage = 4

\* C10 witness: Mumbai looked up and its record returned.
C10_Witness ==
    /\ pc = "get_city_risk_profile"
    /\ city_name = "Mumbai"
    /\ profile.rainfall = 145
    /\ profile.drainage = 4

\* The record the lookup falls back to, as documented.
DocumentedDefault ==
    [base_risk |-> 50, disease |-> "Low Risk", rainfall |-> 100,
     contamination |-> 50, sanitation |-> 60, drainage |-> 3]

\* C11: every city name that is not exactly one of the ten keys (a case variant
\* such as "mumbai", an unknown name such as "Atlantis") gets the default
\* profile: base_risk 0.5, disease Low Risk, rainfall 100, contamination 50,
\* sanitation 60, drainage 3.
C11_UnknownNameGetsDefault ==
    (LookedUp /\ city_name \notin TenCities) => profile = DocumentedDefault

\* C11 witness: the lookup of "mumbai" has returned the default profile, which
\* is not Mumbai's.
C11_Witness ==
    /\ pc = "get_city_risk_profile"
    /\ city_name = "mumbai"
    /\ profile = DocumentedDefault
    /\ profile # city_profiles["Mumbai"]

\* The six normalized sub-scores of a reading, in the order of lines 190-195.
SubScores(rd) ==
    <<rainfall_norm(rd.rainfall), contamination_norm(rd.contamination),
      sanitation_norm(rd.sanitation), drainage_norm(rd.drainage_score),
      temperature_norm(rd.temperature), population_norm(rd.population)>>

\* Every sub-score lies in [0, 1].
InUnitInterval(norms) == \A i \in DOMAIN norms : 0 <= norms[i] /\ norms[i] <= NormScale

\* C12: for a reading within the data-model ranges, each of the six normalized
\* sub-scores calculate_risk_score computes lies in [0, 1] before weighting.
C12_SubScoresInUnitInterval ==
    (Scored /\ InDataModel(reading)) =>
        /\ Len(SubScores(reading)) = 6
        /\ InUnitInterval(SubScores(reading))

\* C12 witness: a call whose rainfall, temperature and population are beyond
\* their caps and whose six sub-scores are all 1.
C12_Witness ==
    /\ pc = "calculate_risk_score"
    /\ reading.rainfall > 200
    /\ reading.temperature > 45
    /\ reading.population > 40000
    /\ InDataModel(reading)
    /\ SubScores(reading) = <<NormScale, NormScale, NormScale, NormScale, NormScale, NormScale>>

\* The sum of the six weights.
WeightSum ==
    weights.contamination + weights.sanitation + weights.rainfall
    + weights.drainage + weights.temperature + weights.population

\* C13: the six weights sum to exactly 1.0, so that the weighted sum before
\* the multipliers lies in [0, 1] whenever every sub-score lies in [0, 1].
C13_WeightedSumInUnitInterval ==
    /\ WeightSum = WeightScale
    /\ (Scored /\ InUnitInterval(SubScores(reading))) =>
          LET W == WeightedSum(reading.rainfall, reading.contamination,
                               reading.drainage_score, reading.sanitation,
                               reading.temperature, reading.population)
          IN  0 <= W /\ W <= SumScale

\* C13 witness: a call whose six sub-scores are all 1 and whose weighted sum is
\* exactly 1.
C13_Witness ==
    /\ pc = "calculate_risk_score"
    /\ reading = Reading(200, 100, 1, 0, 45, 40000)
    /\ WeightedSum(200, 100, 1, 0, 45, 40000) = SumScale

\* C14: calculate_risk_score validates nothing.  For a reading outside the
\* data-model ranges it returns without error, the out-of-range value enters
\* the weighted sum unclamped (contamination 150 as 1.5, rainfall -50 as
\* -0.25), and the result still lies in [0.05, 0.98].
C14_OutOfRangeIsScored ==
    (Scored /\ ~InDataModel(reading)) =>
        /\ Scale \div 20 <= risk_score
        /\ risk_score <= Scale - Scale \div 50
        /\ WeightedSum(reading.rainfall, reading.contamination,
                       reading.drainage_score, reading.sanitation,
                       reading.temperature, reading.population)
             = DocumentedW(reading)
        /\ risk_score = DocumentedClamp(RawScoreOf(reading) + jitter)
        /\ reading.contamination = 150 =>
              contamination_norm(reading.contamination) * 2 = 3 * NormScale
        /\ reading.rainfall = -50 =>
              rainfall_norm(reading.rainfall) * 4 = -NormScale

\* C14 witness: contamination 150 has been scored with a sub-score of 1.5 and a
\* weighted sum of 0.82, and the result is the ceiling 0.98.
C14_Witness ==
    /\ pc = "calculate_risk_score"
    /\ reading = Reading(100, 150, 3, 60, 30, 25000)
    /\ contamination_norm(reading.contamination) > NormScale
    /\ DocumentedW(reading) * 100 = 82 * SumScale
    /\ risk_score = Scale - Scale \div 50

\* The numerator of the one multiplier each factor takes (over 20, 10, 20, 5).
ContaminationFactor(contamination) ==
    IF contamination > 80 THEN 26 ELSE IF contamination > 60 THEN 23 ELSE 20
RainfallFactor(rainfall) ==
    IF rainfall > 150 THEN 12 ELSE IF rainfall > 100 THEN 11 ELSE 10
SanitationFactor(sanitation) ==
    IF sanitation < 30 THEN 25 ELSE IF sanitation < 50 THEN 22 ELSE 20
DrainageFactor(drainage_score) == IF drainage_score >= 4 THEN 6 ELSE 5

\* C18: each factor contributes at most one multiplier, and the multipliers
\* compose as a product onto the accumulating score in the order contamination,
\* rainfall, sanitation, drainage.  Contamination above 80 applies 1.30 only,
\* rainfall above 150 applies 1.20 only, sanitation below 30 applies 1.25 only,
\* drainage >= 4 applies 1.20; each test reads the raw input; a value exactly at
\* a cutoff (contamination 60 or 80, rainfall 100 or 150, sanitation 30 or 50)
\* takes the lower adjustment.
C18_OneMultiplierPerFactor ==
    Scored =>
        LET W == WeightedSum(reading.rainfall, reading.contamination,
                             reading.drainage_score, reading.sanitation,
                             reading.temperature, reading.population)
            afterContamination == ContaminationAdjust(reading.contamination, W)
            afterRainfall == RainfallAdjust(reading.rainfall, afterContamination)
            afterSanitation == SanitationAdjust(reading.sanitation, afterRainfall)
            afterDrainage == DrainageAdjust(reading.drainage_score, afterSanitation)
        IN  /\ afterContamination = W * ContaminationFactor(reading.contamination)
            /\ afterRainfall = afterContamination * RainfallFactor(reading.rainfall)
            /\ afterSanitation = afterRainfall * SanitationFactor(reading.sanitation)
            /\ afterDrainage = afterSanitation * DrainageFactor(reading.drainage_score)
            /\ RawScoreOf(reading) = afterDrainage
            /\ risk_score = ClampScore(afterDrainage + jitter)
            /\ reading.contamination = 60 => afterContamination = W * ContaminationDen
            /\ reading.contamination = 80 => afterContamination = W * 23
            /\ reading.contamination = 81 => afterContamination = W * 26
            /\ reading.rainfall = 100 => afterRainfall = afterContamination * RainfallDen
            /\ reading.rainfall = 150 => afterRainfall = afterContamination * 11
            /\ reading.rainfall = 151 => afterRainfall = afterContamination * 12
            /\ reading.sanitation = 50 => afterSanitation = afterRainfall * SanitationDen
            /\ reading.sanitation = 30 => afterSanitation = afterRainfall * 22
            /\ reading.sanitation = 29 => afterSanitation = afterRainfall * 25

\* C18 witness: a call with every factor exactly at its upper cutoff, scored
\* with 1.15 * 1.10 * 1.10 * 1.20 (above 0.98, so that 0.98 is returned).
C18_Witness ==
    /\ pc = "calculate_risk_score"
    /\ reading.contamination = 80
    /\ reading.rainfall = 150
    /\ reading.sanitation = 30
    /\ reading.drainage_score = 4
    /\ RawScoreOf(reading) = DocumentedW(reading) * 23 * 11 * 22 * 6
    /\ RawScoreOf(reading) + jitter > Scale - Scale \div 50
    /\ risk_score = Scale - Scale \div 50

\* Values at and beyond each point of saturation.
SaturatedRainfall == {200, 201, 250, 300}
SaturatedPopulation == {40000, 40200, 50000, 100000}
HotTemperature == {45, 46, 50, 60}
CoolTemperature == {25, 24, 20, 0}

\* C19: with the jitter and the other inputs fixed, the score is the same for
\* every rainfall >= 200, the same for every population >= 40000, the same for
\* every temperature >= 45 and the same for every temperature <= 25.
C19_Saturation ==
    Scored =>
        /\ reading.rainfall >= 200 =>
              \A r \in SaturatedRainfall :
                  ScoreOf([reading EXCEPT !.rainfall = r], jitter) = risk_score
        /\ reading.population >= 40000 =>
              \A p \in SaturatedPopulation :
                  ScoreOf([reading EXCEPT !.population = p], jitter) = risk_score
        /\ reading.temperature >= 45 =>
              \A x \in HotTemperature :
                  ScoreOf([reading EXCEPT !.temperature = x], jitter) = risk_score
        /\ reading.temperature <= 25 =>
              \A x \in CoolTemperature :
                  ScoreOf([reading EXCEPT !.temperature = x], jitter) = risk_score

\* C19 witness: a call beyond the rainfall, population and temperature caps
\* whose score is not clamped and equals the score at the three caps.
C19_Witness ==
    /\ pc = "calculate_risk_score"
    /\ jitter # 0
    /\ reading.rainfall > 200
    /\ reading.population > 40000
    /\ reading.temperature > 45
    /\ Scale \div 20 < risk_score
    /\ risk_score < Scale - Scale \div 50
    /\ risk_score = ScoreOf([reading EXCEPT !.rainfall = 200, !.population = 40000,
                                            !.temperature = 45], jitter)
    /\ risk_score > ScoreOf([reading EXCEPT !.rainfall = 199], jitter)

\* The scores, with jitter 0, of the readings that differ from rd in the
\* drainage score only.
ByDrainage(rd) ==
    [d \in DrainageRange |-> ScoreOf([rd EXCEPT !.drainage_score = d], 0)]

\* C20: with jitter 0 and the other inputs fixed, the score is non-decreasing in
\* drainage_score over 1..5: a worse drainage score never yields a lower score.
C20_MonotoneInDrainage ==
    (Scored /\ jitter = 0 /\ InDataModel(reading)) =>
        \A d \in Above(reading.drainage_score, DrainageRange) :
            risk_score <= ByDrainage(reading)[d]

\* The threads whose call has returned.
Returned == {t \in Threads : threads[t].pc = "returned"}

\* C15: calculate_risk_score is deterministic given its six inputs and the
\* jitter, and the other three functions given their argument: any two calls of
\* the same function with the same arguments (and the same jitter) return the
\* same result, whatever calls were made before or between them.
C15_SameArgumentsSameResult ==
    \A t1 \in Returned, t2 \in Returned :
        (/\ threads[t1].fn = threads[t2].fn
         /\ threads[t1].args = threads[t2].args
         /\ threads[t1].uniform = threads[t2].uniform)
            => threads[t1].result = threads[t2].result

\* C15 witness: two scoring calls of the same reading with the same non-zero
\* jitter have returned the same unclamped score, the second one after the
\* first one's sample was drawn.
C15_Witness ==
    /\ draws = 2
    /\ \E t1 \in Returned, t2 \in Returned :
        /\ t1 # t2
        /\ threads[t1].fn = "calculate_risk_score"
        /\ threads[t2].fn = "calculate_risk_score"
        /\ threads[t1].args = threads[t2].args
        /\ threads[t1].uniform = threads[t2].uniform
        /\ threads[t1].uniform # 0
        /\ threads[t1].result = threads[t2].result
        /\ threads[t1].result > Scale \div 20
        /\ threads[t1].result < Scale - Scale \div 50

\* What a call returns when it runs alone.
AloneResult(frame) ==
    IF frame.fn = "calculate_risk_score"
    THEN ScoreOf(frame.args, frame.uniform)
    ELSE Evaluate(frame.fn, frame.args)

\* C16: under any interleaving of concurrent calls, every call returns the
\* result it would return when run alone (given its own jitter draw), and the
\* catalog is the same after any sequence of calls: a lookup returns the
\* hardcoded record (or the default) whatever the other threads have done.
C16_InterleavedCallsAsAlone ==
    \A t \in Returned :
        /\ threads[t].result = AloneResult(threads[t])
        /\ threads[t].fn = "get_city_risk_profile" =>
              threads[t].result = IF threads[t].args \in TenCities
                                  THEN city_profiles[threads[t].args]
                                  ELSE DocumentedDefault

\* C16 witness: a scoring call has returned its own result although another
\* thread's scoring call, of another reading, began and computed its weighted
\* score meanwhile and has not drawn its sample yet.
C16_Witness ==
    \E t1 \in Threads, t2 \in Threads :
        /\ threads[t1].pc = "returned"
        /\ threads[t1].fn = "calculate_risk_score"
        /\ threads[t1].result = AloneResult(threads[t1])
        /\ threads[t2].pc = "weighted"
        /\ threads[t2].args # threads[t1].args
        /\ threads[t2].risk_score # threads[t1].result
        /\ draws = 1

\* C17: each call of calculate_risk_score draws exactly one sample from the
\* random source and changes no other state (beyond its own arguments and
\* result); determine_risk_level, predict_disease and get_city_risk_profile
\* draw no sample and change no state.
C17_OneSamplePerScoringCall ==
    [][/\ (pc = "idle" /\ pc' = "calculate_risk_score") =>
            /\ draws' = draws + 1
            /\ jitter' \in JitterVals
            /\ UNCHANGED <<risk_level, disease, city_name, profile, confidence, threads, held>>
       /\ (pc = "idle" /\ pc' = "determine_risk_level") =>
            UNCHANGED <<draws, jitter, reading, disease, city_name, profile,
                        confidence, threads, held>>
       /\ (pc = "idle" /\ pc' = "predict_disease") =>
            UNCHANGED <<draws, jitter, risk_score, risk_level, city_name, profile,
                        confidence, threads, held>>
       /\ (pc = "idle" /\ pc' = "get_city_risk_profile") =>
            UNCHANGED <<draws, jitter, reading, risk_score, risk_level, disease,
                        confidence, threads, held>>
      ]_vars

\* C17 witness: the second scoring call of the process has returned, and two
\* samples have been drawn in all.
C17_Witness ==
    /\ pc = "calculate_risk_score"
    /\ draws = 2
    /\ jitter \in JitterVals

\* C21: for every one of the ten catalog profiles, predict_disease applied to
\* the profile's rainfall, contamination, drainage and sanitation returns the
\* profile's stored disease label, so that the disease Quick City Analysis
\* shows agrees with the catalog's.
C21_CatalogDiseaseIsPredicted ==
    /\ (LookedUp /\ city_name \in TenCities) =>
          predict_disease(profile.rainfall, profile.contamination, profile.drainage,
                          profile.sanitation) = profile.disease
    /\ pc = "analyze_city" => disease = profile.disease

\* The labels predict_disease can return, and the catalog's base risks in
\* hundredths.
DiseaseLabels == {"Cholera", "Typhoid", "Diarrhea", "Hepatitis A",
                  "Waterborne Disease Risk", "Low Risk"}
BaseRisks == {0, 42, 72, 100}

\* C22: base_risk and disease are never inputs to scoring.  In Quick City
\* Analysis the score is calculate_risk_score of the profile's rainfall,
\* contamination, drainage and sanitation with temperature 30 and population
\* 25000, so a profile that differs only in base_risk or disease gives the same
\* score for the same jitter.
C22_ScoreIgnoresBaseRiskAndDisease ==
    pc = "analyze_city" =>
        /\ reading = Reading(profile.rainfall, profile.contamination, profile.drainage,
                             profile.sanitation, 30, 25000)
        /\ risk_score = DocumentedClamp(DocumentedW(reading) * DocumentedM(reading) + jitter)
        /\ \A b \in BaseRisks, d \in DiseaseLabels :
              LET other == [profile EXCEPT !.base_risk = b, !.disease = d]
              IN  ScoreOf(ProfileReading(other), jitter) = risk_score

\* C22 witness: Mumbai analysed with jitter 0: the score 0.9651444 is neither
\* the catalog's base_risk 0.72 nor clamped.
C22_Witness ==
    /\ pc = "analyze_city"
    /\ city_name = "Mumbai"
    /\ jitter = 0
    /\ profile.base_risk = 72
    /\ risk_score = 386057760

\* |a - b|
Distance(a, b) == IF a >= b THEN a - b ELSE b - a

\* C23: for fixed inputs the jitter moves the result by at most 0.05: the score
\* with jitter j is within 0.05 of the score with jitter 0, and the scores of
\* any two calls with the same inputs are at most 0.10 apart.  (raw is the
\* reading's score before the jitter, computed once; the score with jitter u is
\* the clamp of raw + u.)
C23_JitterMovesAtMostItsSize ==
    Scored =>
        \A raw \in {RawScoreOf(reading)} :
            /\ risk_score = ClampScore(raw + jitter)
            /\ Distance(risk_score, ClampScore(raw + 0)) <= Scale \div 20
            /\ \A u \in JitterVals :
                  Distance(risk_score, ClampScore(raw + u)) <= Scale \div 10

\* C23 witness: a call with jitter +0.05 whose score is exactly 0.05 above the
\* score with jitter 0 and exactly 0.10 above the score with jitter -0.05.
C23_Witness ==
    /\ pc = "calculate_risk_score"
    /\ jitter = Scale \div 20
    /\ risk_score - ScoreOf(reading, 0) = Scale \div 20
    /\ risk_score - ScoreOf(reading, -(Scale \div 20)) = Scale \div 10

\* The position of a tier in the order LOW < MEDIUM < HIGH < CRITICAL.
TierRank(level) ==
    CASE level = "LOW" -> 1 [] level = "MEDIUM" -> 2 [] level = "HIGH" -> 3
      [] level = "CRITICAL" -> 4

\* C24: for fixed inputs, the tiers determine_risk_level assigns to the scores
\* of any two calls of calculate_risk_score are equal or adjacent: jitter alone
\* never moves a reading across two tier boundaries.
C24_JitterKeepsTiersAdjacent ==
    Scored =>
        \A raw \in {RawScoreOf(reading)}, u \in JitterVals :
            Distance(TierRank(determine_risk_level(risk_score)[1]),
                     TierRank(determine_risk_level(ClampScore(raw + u))[1])) <= 1

\* C24 witness: Run Prediction has shown HIGH for a reading that the opposite
\* jitter puts in CRITICAL.
C24_Witness ==
    /\ pc = "run_prediction"
    /\ risk_level[1] = "HIGH"
    /\ jitter < 0
    /\ determine_risk_level(ScoreOf(reading, -jitter))[1] = "CRITICAL"

\* C25: at the extremes the clamp removes the randomness.  When the score
\* before the jitter is <= 0 the call returns exactly 0.05 for every jitter, and
\* when it is >= 1.03 the call returns exactly 0.98 for every jitter.
C25_ClampRemovesJitter ==
    Scored =>
        /\ RawScoreOf(reading) <= 0 => risk_score = Scale \div 20
        /\ RawScoreOf(reading) >= 103 * (Scale \div 100) =>
              risk_score = Scale - Scale \div 50

\* C25 witness: the reading with contamination 0, sanitation 100, rainfall 0,
\* drainage 5, temperature 25 and population 0 has a score of 0 before the
\* jitter, and with jitter +0.05 the call has returned 0.05.
C25_Witness ==
    /\ pc = "calculate_risk_score"
    /\ reading = Reading(0, 0, 5, 100, 25, 0)
    /\ InDataModel(reading)
    /\ RawScoreOf(reading) = 0
    /\ jitter = Scale \div 20
    /\ risk_score = Scale \div 20

\* One reading of the data model for each label.
LabelExamples ==
    [Cholera |-> Reading(151, 81, 1, 0, None, None),
     Typhoid |-> Reading(0, 71, 1, 39, None, None),
     Diarrhea |-> Reading(0, 61, 1, 100, None, None),
     HepatitisA |-> Reading(181, 60, 4, 100, None, None),
     Waterborne |-> Reading(121, 0, 1, 100, None, None),
     LowRisk |-> Reading(0, 0, 1, 100, None, None)]

LabelOf(rd) == predict_disease(rd.rainfall, rd.contamination, rd.drainage_score, rd.sanitation)

\* C26: predict_disease returns only the six labels, each of the six labels is
\* returned for a reading within the data-model ranges (no rule is shadowed),
\* and Hepatitis A is returned exactly when contamination <= 60, rainfall > 180
\* and drainage_score >= 4.
C26_ClosedLabelSet ==
    /\ Diagnosed =>
          /\ disease \in DiseaseLabels
          /\ disease = "Hepatitis A" <=>
                (/\ reading.contamination <= 60
                 /\ reading.rainfall > 180
                 /\ reading.drainage_score >= 4)
    /\ {LabelExamples[k] : k \in DOMAIN LabelExamples} \subseteq DiseaseReadings
    /\ {LabelOf(LabelExamples[k]) : k \in DOMAIN LabelExamples} = DiseaseLabels
    /\ Cardinality(DiseaseLabels) = 6

\* C26 witness: predict_disease has returned Hepatitis A for contamination
\* exactly 60.
C26_Witness ==
    /\ pc = "predict_disease"
    /\ reading.contamination = 60
    /\ reading.rainfall > 180
    /\ reading.drainage_score >= 4
    /\ disease = "Hepatitis A"

\* C27: each call of get_city_risk_profile returns a freshly built record.
\* After a caller has changed a field of a profile it was given (a known city's
\* or the default one), a later call with any name returns the hardcoded
\* values; the caller's changed record is its own.
C27_LookupReturnsFreshRecord ==
    pc = "looked_up_again" =>
        /\ held.record # get_city_risk_profile(held.name)
        /\ profile = IF city_name \in TenCities THEN city_profiles[city_name]
                     ELSE DocumentedDefault
        /\ city_name = "Mumbai" =>
              profile = [base_risk |-> 72, disease |-> "Cholera", rainfall |-> 145,
                         contamination |-> 68, sanitation |-> 45, drainage |-> 4]
        /\ city_name = held.name => profile # held.record

\* C27 witness: the caller set the rainfall of Mumbai's profile to 999 and
\* looked Mumbai up again: the new record has rainfall 145, the caller's 999.
C27_Witness ==
    /\ pc = "looked_up_again"
    /\ held.name = "Mumbai"
    /\ held.record.rainfall = 999
    /\ city_name = "Mumbai"
    /\ profile.rainfall = 145

====
